---------------------------- MODULE Spec2Model ----------------------------
(***************************************************************************)
(* Model of src/server.js: the Express service of the cashless guest      *)
(* ledger.  One process ("instance") runs connectDB, seeds the product    *)
(* catalog, starts the HTTP listener and serves the route handlers; the   *)
(* three MongoDB collections are shared by every instance.                *)
(*                                                                         *)
(* JavaScript values: the JSON literals true, false and null are the      *)
(* strings "true", "false" and "null"; a Date is the clock reading (a     *)
(* natural number of milliseconds); an ISO string is the sequence of its  *)
(* zero-padded decimal digits; a document or a JSON object is a function  *)
(* from field names to values, a missing field being outside its domain.  *)
(***************************************************************************)
EXTENDS Naturals, Sequences, FiniteSets

VARIABLES
    MONGODB_URI,    \* per instance: "" (also before its start) or the connection string
    pc,             \* per instance: position in the start-up sequence
    db,             \* per instance: the module-level `db`
    client,         \* per instance: the module-level `client`
    shutdown,       \* per instance: "none", "closing" (awaiting close), "exited"
    events,         \* per instance: start-up events so far, in order
    huespedes,      \* collection, in insertion (natural) order
    transacciones,  \* collection, in insertion (natural) order
    productos,      \* collection, in insertion (natural) order
    clock,          \* the server's wall clock, in milliseconds since some instant
    req,            \* the last request a listener accepted
    resp,           \* the response sent to it
    console         \* what the handler of that request wrote with console.error

vars == <<MONGODB_URI, pc, db, client, shutdown, events,
          huespedes, transacciones, productos, clock, req, resp, console>>

\* ------------------------------------------------------------------ bounds

NumInstances == 2
ClockStart == 8
MaxTicks == 2
IsoWidth == 2
MaxHuespedes == 2
MaxTransacciones == 3
MaxProductos == 2

Instances == 1..NumInstances

\* ------------------------------------------------------- JavaScript values

JSTrue == "true"
JSFalse == "false"
JSNull == "null"

EmptyObject == [f \in {} |-> JSNull]

\* { ...a, ...b }: the fields of b win.
Spread(a, b) ==
    [f \in (DOMAIN a) \cup (DOMAIN b) |-> IF f \in DOMAIN b THEN b[f] ELSE a[f]]

\* const { f, ...rest } = o
Rest(o, f) == [g \in (DOMAIN o) \ {f} |-> o[g]]

\* a ?? b, for a field that may be missing
Coalesce(o, f, dflt) ==
    IF f \in DOMAIN o /\ o[f] # JSNull THEN o[f] ELSE dflt

\* An ObjectId the driver generates, and a client-supplied _id (a JSON string).
ObjectId(n) == [type |-> "ObjectId", v |-> n]
StringId(n) == [type |-> "string", v |-> n]

\* Date.prototype.toISOString: fixed width, zero padded, most significant first.
Pow10(k) == IF k = 0 THEN 1 ELSE IF k = 1 THEN 10 ELSE IF k = 2 THEN 100 ELSE 1000

ToISOString(t) ==
    [k \in 1..IsoWidth |-> (t \div Pow10(IsoWidth - k)) % 10]

\* String comparison (code unit by code unit; a proper prefix sorts first).
LexLess(a, b) ==
    \E k \in 1..(Len(a) + 1) :
        /\ \A j \in 1..(k - 1) : j <= Len(b) /\ a[j] = b[j]
        /\ \/ k = Len(a) + 1 /\ Len(b) >= k
           \/ k <= Len(a) /\ k <= Len(b) /\ a[k] < b[k]

\* ------------------------------------------------------ MongoDB collections

\* find(filtro): equality on every field of the filter.
Matches(doc, filtro) ==
    \A f \in DOMAIN filtro : f \in DOMAIN doc /\ doc[f] = filtro[f]

Range(s) == {s[k] : k \in 1..Len(s)}

Find(coll, filtro) == {d \in Range(coll) : Matches(d, filtro)}

\* sort(): every arrangement of docs in non-decreasing key order; documents
\* with equal keys come in an order the server does not specify.
RECURSIVE SortedSeqs(_, _)
SortedSeqs(docs, key) ==
    IF docs = {} THEN {<<>>}
    ELSE LET least == {d \in docs : \A e \in docs : ~LexLess(key[e], key[d])}
         IN  UNION {{<<d>> \o s : s \in SortedSeqs(docs \ {d}, key)} : d \in least}

Reverse(s) == [k \in 1..Len(s) |-> s[Len(s) + 1 - k]]

SortAscending(docs, key) == SortedSeqs(docs, key)
SortDescending(docs, key) == {Reverse(s) : s \in SortedSeqs(docs, key)}

\* insertOne / insertMany: _id is generated unless the document carries one;
\* a duplicate _id is rejected by the unique index.
NextObjectId(coll) == ObjectId(Len(coll) + 1)

WithId(coll, doc) ==
    IF "_id" \in DOMAIN doc THEN doc ELSE Spread(doc, [_id |-> NextObjectId(coll)])

DuplicateKey(coll, doc) ==
    "_id" \in DOMAIN doc /\ \E d \in Range(coll) : d["_id"] = doc["_id"]

InsertOne(coll, doc) == Append(coll, WithId(coll, doc))

\* updateOne(filtro, {$set: fields}): the first matching document, if any.
MatchedCount(coll, filtro) ==
    IF \E k \in 1..Len(coll) : Matches(coll[k], filtro) THEN 1 ELSE 0

UpdateOne(coll, filtro, fields) ==
    IF MatchedCount(coll, filtro) = 0 THEN coll
    ELSE LET k == CHOOSE k \in 1..Len(coll) :
                      /\ Matches(coll[k], filtro)
                      /\ \A j \in 1..(k - 1) : ~Matches(coll[j], filtro)
         IN  [coll EXCEPT ![k] = Spread(coll[k], fields)]

\* What a storage call can do: with `db` never assigned the call is a
\* TypeError on undefined; otherwise the driver answers or throws.
StorageOutcomes(i) ==
    IF db[i] = "undefined" THEN {"throw"} ELSE {"ok", "throw"}

\* -------------------------------------------------------------- seed data

defaultProductos == <<
    [nombre |-> "Hamburguesa Clasica", precio |-> 150, categoria |-> "alimentos", icono |-> "U+1F354", activo |-> JSTrue],
    [nombre |-> "Pizza Margarita", precio |-> 180, categoria |-> "alimentos", icono |-> "U+1F355", activo |-> JSTrue],
    [nombre |-> "Ensalada Caesar", precio |-> 120, categoria |-> "alimentos", icono |-> "U+1F957", activo |-> JSTrue],
    [nombre |-> "Cerveza Corona", precio |-> 60, categoria |-> "bebidas", icono |-> "U+1F37A", activo |-> JSTrue],
    [nombre |-> "Margarita", precio |-> 120, categoria |-> "bebidas", icono |-> "U+1F379", activo |-> JSTrue],
    [nombre |-> "Agua Mineral", precio |-> 35, categoria |-> "bebidas", icono |-> "U+1F4A7", activo |-> JSTrue],
    [nombre |-> "Cafe Americano", precio |-> 45, categoria |-> "bebidas", icono |-> "U+2615", activo |-> JSTrue],
    [nombre |-> "Renta Kayak 1hr", precio |-> 200, categoria |-> "deportes", icono |-> "U+1F6A3", activo |-> JSTrue],
    [nombre |-> "Tabla Paddle 1hr", precio |-> 250, categoria |-> "deportes", icono |-> "U+1F3C4", activo |-> JSTrue],
    [nombre |-> "Masaje Relajante", precio |-> 450, categoria |-> "spa", icono |-> "U+1F486", activo |-> JSTrue] >>

\* insertMany(defaultProductos.map(p => ({...p, createdAt, updatedAt})))
\* (the driver numbers the documents of one batch in order).
InsertMany(coll, docs) ==
    coll \o [k \in 1..Len(docs) |->
                IF "_id" \in DOMAIN docs[k] THEN docs[k]
                ELSE Spread(docs[k], [_id |-> ObjectId(Len(coll) + k)])]

SeedDocuments ==
    [k \in 1..Len(defaultProductos) |->
        Spread(defaultProductos[k], [createdAt |-> clock, updatedAt |-> clock])]

\* How many copies of the default catalog the collection holds.
SeedCopies ==
    Cardinality({k \in 1..Len(productos) :
                    productos[k]["nombre"] = defaultProductos[1]["nombre"]})

\* ------------------------------------------------------------ HTTP plumbing

NoRequest == [route |-> "none"]
NoResponse == [status |-> 0]

Json(status, body) == [status |-> status, body |-> body]
Error500(message) == Json(500, [error |-> message])

\* A listener accepts requests from app.listen until the process exits.
Listening(i) == pc[i] = "listening" /\ shutdown[i] # "exited"

\* A process that has been started and has not exited.
Running(i) == pc[i] # "off" /\ shutdown[i] # "exited"

UNCHANGED_DATA == UNCHANGED <<huespedes, transacciones, productos>>
UNCHANGED_PROCESS == UNCHANGED <<MONGODB_URI, pc, db, client, shutdown, events>>

\* ------------------------------------------------------------------- Init

Init ==
    /\ MONGODB_URI = [i \in Instances |-> ""]
    /\ pc = [i \in Instances |-> "off"]
    /\ db = [i \in Instances |-> "undefined"]
    /\ client = [i \in Instances |-> "undefined"]
    /\ shutdown = [i \in Instances |-> "none"]
    /\ events = [i \in Instances |-> <<>>]
    /\ huespedes = <<>>
    /\ transacciones = <<>>
    /\ productos = <<>>
    /\ clock = ClockStart
    /\ req = NoRequest
    /\ resp = NoResponse
    /\ console = ""

\* --------------------------------------------------------------- start-up

\* `node server.js` in some environment: MONGODB_URI = process.env.MONGODB_URI
\* || '', and the module body runs up to connectDB().
Launch(i) ==
    /\ pc[i] = "off"
    /\ pc' = [pc EXCEPT ![i] = "start"]
    /\ \E uri \in {"", "mongodb+srv://"} :
          MONGODB_URI' = [MONGODB_URI EXCEPT ![i] = uri]
    /\ UNCHANGED <<db, client, shutdown, events, clock, req, resp, console>>
    /\ UNCHANGED_DATA

\* connectDB up to its first await; with no MONGODB_URI it warns and returns.
ConnectDB(i) ==
    /\ pc[i] = "start"
    /\ IF MONGODB_URI[i] = ""
       THEN /\ pc' = [pc EXCEPT ![i] = "resolved"]
            /\ events' = [events EXCEPT ![i] = @ \o <<"connectDB", "return">>]
            /\ UNCHANGED client
       ELSE /\ client' = [client EXCEPT ![i] = "created"]
            /\ pc' = [pc EXCEPT ![i] = "connect"]
            /\ events' = [events EXCEPT ![i] = @ \o <<"connectDB">>]
    /\ UNCHANGED <<MONGODB_URI, db, shutdown, clock, req, resp, console>>
    /\ UNCHANGED_DATA

\* The catch block of connectDB: it logs and returns, so connectDB resolves.
Catch(i) ==
    /\ pc' = [pc EXCEPT ![i] = "resolved"]
    /\ events' = [events EXCEPT ![i] = @ \o <<"error", "return">>]

\* await client.connect(); db = client.db(DB_NAME)
ClientConnect(i) ==
    /\ pc[i] = "connect"
    /\ Running(i)
    /\ \/ /\ client' = [client EXCEPT ![i] = IF @ = "closed" THEN @ ELSE "connected"]
          /\ db' = [db EXCEPT ![i] = "cashless_db"]
          /\ pc' = [pc EXCEPT ![i] = "ping"]
          /\ events' = [events EXCEPT ![i] = @ \o <<"connected">>]
       \/ /\ Catch(i)
          /\ UNCHANGED <<client, db>>
    /\ UNCHANGED <<MONGODB_URI, shutdown, clock, req, resp, console>>
    /\ UNCHANGED_DATA

\* await db.command({ping: 1}), then ensureProductosSeeded up to its await
\* (`db` was assigned by ClientConnect, so its `if (!db) return` is passed).
Ping(i) ==
    /\ pc[i] = "ping"
    /\ Running(i)
    /\ \/ /\ pc' = [pc EXCEPT ![i] = "count"]
          /\ events' = [events EXCEPT ![i] = @ \o <<"pinged", "seed">>]
       \/ Catch(i)
    /\ UNCHANGED <<MONGODB_URI, db, client, shutdown, clock, req, resp, console>>
    /\ UNCHANGED_DATA

\* A faulty variant of SeedDecision: the count is not looked at.
SeedDecisionUnchecked(count) == TRUE

\* if (count === 0)
SeedDecision(count) == count = 0

\* const count = await countDocuments(); if (count === 0) ...; otherwise
\* ensureProductosSeeded and then connectDB return.
SeedCount(i) ==
    /\ pc[i] = "count"
    /\ Running(i)
    /\ \/ /\ SeedDecision(Len(productos))
          /\ pc' = [pc EXCEPT ![i] = "insert"]
          /\ UNCHANGED events
       \/ /\ ~SeedDecision(Len(productos))
          /\ pc' = [pc EXCEPT ![i] = "resolved"]
          /\ events' = [events EXCEPT ![i] = @ \o <<"return">>]
       \/ Catch(i)
    /\ UNCHANGED <<MONGODB_URI, db, client, shutdown, clock, req, resp, console>>
    /\ UNCHANGED_DATA

\* A faulty variant of SeedInsert: the insert is retried instead of returning.
SeedInsertRetried(i) ==
    /\ pc[i] = "insert"
    /\ Running(i)
    /\ Len(productos) < 4 * Len(defaultProductos)
    /\ productos' = InsertMany(productos, SeedDocuments)
    /\ UNCHANGED <<MONGODB_URI, pc, db, client, shutdown, events, clock, req, resp, console>>
    /\ UNCHANGED <<huespedes, transacciones>>

\* await insertMany(...), then ensureProductosSeeded and connectDB return.
SeedInsert(i) ==
    /\ pc[i] = "insert"
    /\ Running(i)
    /\ \/ /\ productos' = InsertMany(productos, SeedDocuments)
          /\ pc' = [pc EXCEPT ![i] = "resolved"]
          /\ events' = [events EXCEPT ![i] = @ \o <<"insertados", "return">>]
       \/ /\ UNCHANGED productos
          /\ Catch(i)
    /\ UNCHANGED <<MONGODB_URI, db, client, shutdown, clock, req, resp, console>>
    /\ UNCHANGED <<huespedes, transacciones>>

\* A faulty variant of Listen: app.listen is called without waiting for connectDB.
ListenEarly(i) ==
    /\ pc[i] \in {"connect", "ping", "count", "insert", "resolved"}
    /\ Running(i)
    /\ pc' = [pc EXCEPT ![i] = "listening"]
    /\ events' = [events EXCEPT ![i] = @ \o <<"listen">>]
    /\ UNCHANGED <<MONGODB_URI, db, client, shutdown, clock, req, resp, console>>
    /\ UNCHANGED_DATA

\* connectDB().then(() => app.listen(PORT, ...))
Listen(i) ==
    /\ pc[i] = "resolved"
    /\ Running(i)
    /\ pc' = [pc EXCEPT ![i] = "listening"]
    /\ events' = [events EXCEPT ![i] = @ \o <<"listen">>]
    /\ UNCHANGED <<MONGODB_URI, db, client, shutdown, clock, req, resp, console>>
    /\ UNCHANGED_DATA

\* --------------------------------------------------------------- shutdown

\* process.on('SIGINT'): the handler runs between two turns of the event
\* loop, so at an await of connectDB or once the listener is up.
Sigint(i) ==
    /\ pc[i] \in {"connect", "ping", "count", "insert", "listening"}
    /\ shutdown[i] = "none"
    /\ shutdown' = [shutdown EXCEPT ![i] =
                       IF client[i] # "undefined" THEN "closing" ELSE "exited"]
    /\ UNCHANGED <<MONGODB_URI, pc, db, client, events, clock, req, resp, console>>
    /\ UNCHANGED_DATA

\* await client.close() returns; process.exit(0).
CloseAndExit(i) ==
    /\ shutdown[i] = "closing"
    /\ client' = [client EXCEPT ![i] = "closed"]
    /\ shutdown' = [shutdown EXCEPT ![i] = "exited"]
    /\ UNCHANGED <<MONGODB_URI, pc, db, events, clock, req, resp, console>>
    /\ UNCHANGED_DATA

\* ------------------------------------------------------------------ clock

\* Time passes, one millisecond at a time.
Tick ==
    /\ clock < ClockStart + MaxTicks
    /\ clock' = clock + 1
    /\ UNCHANGED <<req, resp, console>>
    /\ UNCHANGED_PROCESS
    /\ UNCHANGED_DATA

\* ------------------------------------------------------ health check, ping

\* app.get('/')
GetRoot(i) ==
    /\ Listening(i)
    /\ req' = [route |-> "GET /", inst |-> i]
    /\ resp' = Json(200, [status |-> "ok", message |-> "Bahia Escondida Cashless API",
                          version |-> "1.0.0"])
    /\ console' = ""
    /\ UNCHANGED clock
    /\ UNCHANGED_PROCESS
    /\ UNCHANGED_DATA

\* app.get('/api/ping')
GetPing(i) ==
    /\ Listening(i)
    /\ req' = [route |-> "GET /api/ping", inst |-> i]
    /\ \E outcome \in StorageOutcomes(i) :
          resp' = IF outcome = "ok"
                  THEN Json(200, [success |-> JSTrue,
                                  message |-> "Conexion a MongoDB exitosa",
                                  timestamp |-> ToISOString(clock)])
                  ELSE Json(500, [success |-> JSFalse,
                                  error |-> "Error de conexion a MongoDB"])
    /\ console' = ""
    /\ UNCHANGED clock
    /\ UNCHANGED_PROCESS
    /\ UNCHANGED_DATA

\* --------------------------------------------------------------- handlers

\* The exception a handler's try block ends with, if any: `db` undefined
\* (db.collection on undefined), new ObjectId on a malformed string, a write
\* the server rejects, or a failed storage call.
Thrown(i, malformed, rejected, outcome) ==
    IF db[i] = "undefined" THEN "TypeError"
    ELSE IF malformed THEN "BSONError"
    ELSE IF outcome = "throw" THEN "MongoNetworkError"
    ELSE IF rejected THEN "MongoServerError"
    ELSE ""

\* req.params.id: a string that is 24 hexadecimal characters (hex) or not.
IdParams ==
    {[hex |-> TRUE, v |-> n] : n \in 1..(MaxHuespedes + 1)} \cup {[hex |-> FALSE, v |-> 0]}

\* { _id: new ObjectId(req.params.id) }
ById(p) == [_id |-> ObjectId(p.v)]

\* ---------------------------------------------------------------- huespedes

PostHuespedBodies == {
    [nombre |-> "Ana", activo |-> JSFalse],
    [_id |-> StringId(1), nombre |-> "Luis"] }

PutHuespedBodies == {
    [nombre |-> "Eva"],
    [_id |-> StringId(2), nombre |-> "Eva"],
    [_id |-> StringId(2), activo |-> JSTrue, updatedAt |-> 0] }

\* A faulty variant of HuespedesFilter: the listing forgets the activo filter.
HuespedesFilterAll == EmptyObject

\* find({ activo: true })
HuespedesFilter == [activo |-> JSTrue]

\* find({activo: true}).sort({fechaRegistro: -1}).toArray()
HuespedesActivos(coll) ==
    LET docs == Find(coll, HuespedesFilter)
    IN  SortDescending(docs, [d \in docs |-> d["fechaRegistro"]])

\* app.get('/api/huespedes')
GetHuespedes(i) ==
    /\ Listening(i)
    /\ req' = [route |-> "GET /api/huespedes", inst |-> i]
    /\ \E outcome \in StorageOutcomes(i) :
          LET thrown == Thrown(i, FALSE, FALSE, outcome)
          IN  /\ console' = thrown
              /\ IF thrown # ""
                 THEN resp' = Error500("Error al obtener huespedes")
                 ELSE \E list \in HuespedesActivos(huespedes) : resp' = Json(200, list)
    /\ UNCHANGED clock
    /\ UNCHANGED_PROCESS
    /\ UNCHANGED_DATA

\* app.get('/api/huespedes/:id')
GetHuesped(i) ==
    /\ Listening(i)
    /\ \E p \in IdParams, outcome \in StorageOutcomes(i) :
          LET thrown == Thrown(i, ~p.hex, FALSE, outcome)
              found == Find(huespedes, ById(p))
          IN  /\ req' = [route |-> "GET /api/huespedes/:id", inst |-> i, id |-> p]
              /\ console' = thrown
              /\ resp' = IF thrown # "" THEN Error500("Error al obtener huesped")
                         ELSE IF found = {} THEN Json(404, [error |-> "Huesped no encontrado"])
                         ELSE Json(200, CHOOSE d \in found : TRUE)
    /\ UNCHANGED clock
    /\ UNCHANGED_PROCESS
    /\ UNCHANGED_DATA

\* { ...req.body, fechaRegistro, activo: true, createdAt }
NuevoHuesped(body) ==
    Spread(body, [fechaRegistro |-> ToISOString(clock), activo |-> JSTrue,
                  createdAt |-> clock])

\* app.post('/api/huespedes')
PostHuesped(i) ==
    /\ Listening(i)
    /\ Len(huespedes) < MaxHuespedes
    /\ \E body \in PostHuespedBodies, outcome \in StorageOutcomes(i) :
          LET nuevoHuesped == NuevoHuesped(body)
              thrown == Thrown(i, FALSE, DuplicateKey(huespedes, nuevoHuesped), outcome)
          IN  /\ req' = [route |-> "POST /api/huespedes", inst |-> i, body |-> body]
              /\ console' = thrown
              /\ IF thrown # ""
                 THEN /\ resp' = Error500("Error al crear huesped")
                      /\ UNCHANGED huespedes
                 ELSE /\ huespedes' = InsertOne(huespedes, nuevoHuesped)
                      /\ resp' = Json(201, [success |-> JSTrue,
                                            id |-> WithId(huespedes, nuevoHuesped)["_id"],
                                            message |-> "Huesped registrado exitosamente"])
    /\ UNCHANGED <<clock, transacciones, productos>>
    /\ UNCHANGED_PROCESS

\* A faulty variant of UpdateData: _id is left in the fields to set.
UpdateDataWithId(body) == body

\* const { _id, ...updateData } = req.body
UpdateData(body) == Rest(body, "_id")

\* updateOne rejects a $set that would change the immutable _id.
ChangesId(coll, filtro, fields) ==
    /\ "_id" \in DOMAIN fields
    /\ \E d \in Find(coll, filtro) : d["_id"] # fields["_id"]

\* app.put('/api/huespedes/:id')
PutHuesped(i) ==
    /\ Listening(i)
    /\ \E p \in IdParams, body \in PutHuespedBodies, outcome \in StorageOutcomes(i) :
          LET fields == Spread(UpdateData(body), [updatedAt |-> clock])
              thrown == Thrown(i, ~p.hex, ChangesId(huespedes, ById(p), fields), outcome)
          IN  /\ req' = [route |-> "PUT /api/huespedes/:id", inst |-> i, id |-> p,
                         body |-> body]
              /\ console' = thrown
              /\ IF thrown # ""
                 THEN /\ resp' = Error500("Error al actualizar huesped")
                      /\ UNCHANGED huespedes
                 ELSE /\ huespedes' = UpdateOne(huespedes, ById(p), fields)
                      /\ resp' = IF MatchedCount(huespedes, ById(p)) = 0
                                 THEN Json(404, [error |-> "Huesped no encontrado"])
                                 ELSE Json(200, [success |-> JSTrue,
                                                 message |-> "Huesped actualizado exitosamente"])
    /\ UNCHANGED <<clock, transacciones, productos>>
    /\ UNCHANGED_PROCESS

\* { $set: { activo: false, deletedAt: new Date() } }
SoftDelete == [activo |-> JSFalse, deletedAt |-> clock]

\* app.delete('/api/huespedes/:id')
DeleteHuesped(i) ==
    /\ Listening(i)
    /\ \E p \in IdParams, outcome \in StorageOutcomes(i) :
          LET thrown == Thrown(i, ~p.hex, FALSE, outcome)
          IN  /\ req' = [route |-> "DELETE /api/huespedes/:id", inst |-> i, id |-> p]
              /\ console' = thrown
              /\ IF thrown # ""
                 THEN /\ resp' = Error500("Error al eliminar huesped")
                      /\ UNCHANGED huespedes
                 ELSE /\ huespedes' = UpdateOne(huespedes, ById(p), SoftDelete)
                      /\ resp' = IF MatchedCount(huespedes, ById(p)) = 0
                                 THEN Json(404, [error |-> "Huesped no encontrado"])
                                 ELSE Json(200, [success |-> JSTrue,
                                                 message |-> "Huesped eliminado exitosamente"])
    /\ UNCHANGED <<clock, transacciones, productos>>
    /\ UNCHANGED_PROCESS

\* ------------------------------------------------------------ transacciones

\* A fecha a client puts in its body: an ISO string of its own choosing.
ClientFecha == [k \in 1..IsoWidth |-> 9]

TransaccionBodies == {
    [huespedId |-> "h1", monto |-> 150],
    [huespedId |-> "h2", monto |-> 60, fecha |-> ClientFecha] }

\* req.params.huespedId: any string.
HuespedIdParams == {"h1", "h2", "h3"}

\* .sort({ fecha: -1 }).toArray()
PorFechaDescendente(docs) == SortDescending(docs, [d \in docs |-> d["fecha"]])

\* app.get('/api/transacciones')
GetTransacciones(i) ==
    /\ Listening(i)
    /\ req' = [route |-> "GET /api/transacciones", inst |-> i]
    /\ \E outcome \in StorageOutcomes(i) :
          LET thrown == Thrown(i, FALSE, FALSE, outcome)
          IN  /\ console' = thrown
              /\ IF thrown # ""
                 THEN resp' = Error500("Error al obtener transacciones")
                 ELSE \E list \in PorFechaDescendente(Find(transacciones, EmptyObject)) :
                         resp' = Json(200, list)
    /\ UNCHANGED clock
    /\ UNCHANGED_PROCESS
    /\ UNCHANGED_DATA

\* app.get('/api/transacciones/huesped/:huespedId')
GetTransaccionesHuesped(i) ==
    /\ Listening(i)
    /\ \E h \in HuespedIdParams, outcome \in StorageOutcomes(i) :
          LET thrown == Thrown(i, FALSE, FALSE, outcome)
          IN  /\ req' = [route |-> "GET /api/transacciones/huesped/:huespedId",
                         inst |-> i, huespedId |-> h]
              /\ console' = thrown
              /\ IF thrown # ""
                 THEN resp' = Error500("Error al obtener transacciones")
                 ELSE \E list \in PorFechaDescendente(Find(transacciones, [huespedId |-> h])) :
                         resp' = Json(200, list)
    /\ UNCHANGED clock
    /\ UNCHANGED_PROCESS
    /\ UNCHANGED_DATA

\* A faulty variant of NuevaTransaccion: the body is spread last, over fecha.
NuevaTransaccionBodyLast(body) ==
    Spread([fecha |-> ToISOString(clock), createdAt |-> clock], body)

\* { ...req.body, fecha: new Date().toISOString(), createdAt: new Date() }
NuevaTransaccion(body) ==
    Spread(body, [fecha |-> ToISOString(clock), createdAt |-> clock])

\* app.post('/api/transacciones')
PostTransaccion(i) ==
    /\ Listening(i)
    /\ Len(transacciones) < MaxTransacciones
    /\ \E body \in TransaccionBodies, outcome \in StorageOutcomes(i) :
          LET nuevaTransaccion == NuevaTransaccion(body)
              thrown == Thrown(i, FALSE, DuplicateKey(transacciones, nuevaTransaccion), outcome)
          IN  /\ req' = [route |-> "POST /api/transacciones", inst |-> i, body |-> body]
              /\ console' = thrown
              /\ IF thrown # ""
                 THEN /\ resp' = Error500("Error al crear transaccion")
                      /\ UNCHANGED transacciones
                 ELSE /\ transacciones' = InsertOne(transacciones, nuevaTransaccion)
                      /\ resp' = Json(201, [success |-> JSTrue,
                                            id |-> WithId(transacciones, nuevaTransaccion)["_id"],
                                            message |-> "Transaccion registrada exitosamente"])
    /\ UNCHANGED <<clock, huespedes, productos>>
    /\ UNCHANGED_PROCESS

\* ---------------------------------------------------------------- productos

ProductoBodies == {
    [nombre |-> "Taco", precio |-> 30, categoria |-> "alimentos", icono |-> "U+1F32E"],
    [nombre |-> "Sauna", precio |-> 300, categoria |-> "spa", icono |-> "U+1F9D6",
     activo |-> JSFalse],
    [nombre |-> "Margarita", precio |-> 120, categoria |-> "bebidas", icono |-> "U+1F379",
     activo |-> JSNull] }

\* req.query: without categoria, or with a categoria string (possibly empty).
ProductoQueries ==
    {EmptyObject} \cup
    {[categoria |-> c] : c \in {"", "todos", "alimentos", "bebidas", "spa", "postres"}}

\* The strings of the catalog in the order MongoDB compares strings (by code
\* unit: upper case before lower case).
StringOrder == <<
    "", "Agua Mineral", "Cafe Americano", "Cerveza Corona", "Ensalada Caesar",
    "Hamburguesa Clasica", "Margarita", "Masaje Relajante", "Pizza Margarita",
    "Renta Kayak 1hr", "Sauna", "Tabla Paddle 1hr", "Taco",
    "alimentos", "bebidas", "deportes", "postres", "spa", "todos" >>

\* The sort key of a string field; a missing field sorts before every string.
StringKey(doc, f) ==
    IF f \in DOMAIN doc
    THEN CHOOSE k \in 1..Len(StringOrder) : StringOrder[k] = doc[f]
    ELSE 0

\* A faulty variant of ProductosFiltro: 'todos' is taken for a category.
ProductosFiltroSinTodos(query) ==
    IF "categoria" \in DOMAIN query /\ query["categoria"] # ""
    THEN [categoria |-> query["categoria"], activo |-> JSTrue]
    ELSE [activo |-> JSTrue]

\* categoria && categoria !== 'todos' ? { categoria, activo: true } : { activo: true }
ProductosFiltro(query) ==
    IF /\ "categoria" \in DOMAIN query
       /\ query["categoria"] # ""
       /\ query["categoria"] # "todos"
    THEN [categoria |-> query["categoria"], activo |-> JSTrue]
    ELSE [activo |-> JSTrue]

\* find(filtro).sort({ categoria: 1, nombre: 1 }).toArray()
ProductosListados(coll, query) ==
    LET docs == Find(coll, ProductosFiltro(query))
    IN  SortAscending(docs, [d \in docs |->
                                <<StringKey(d, "categoria"), StringKey(d, "nombre")>>])

\* app.get('/api/productos')
GetProductos(i) ==
    /\ Listening(i)
    /\ \E query \in ProductoQueries, outcome \in StorageOutcomes(i) :
          LET thrown == Thrown(i, FALSE, FALSE, outcome)
          IN  /\ req' = [route |-> "GET /api/productos", inst |-> i, query |-> query]
              /\ console' = thrown
              /\ IF thrown # ""
                 THEN resp' = Error500("Error al obtener productos")
                 ELSE \E list \in ProductosListados(productos, query) :
                         resp' = Json(200, list)
    /\ UNCHANGED clock
    /\ UNCHANGED_PROCESS
    /\ UNCHANGED_DATA

\* { ...req.body, activo: req.body.activo ?? true, createdAt, updatedAt }
NuevoProducto(body) ==
    Spread(body, [activo |-> Coalesce(body, "activo", JSTrue),
                  createdAt |-> clock, updatedAt |-> clock])

\* How many products POST /api/productos has added (the bound of PostProducto).
Creados == Len(productos) - SeedCopies * Len(defaultProductos)

\* app.post('/api/productos')
PostProducto(i) ==
    /\ Listening(i)
    /\ Creados < MaxProductos
    /\ \E body \in ProductoBodies, outcome \in StorageOutcomes(i) :
          LET nuevoProducto == NuevoProducto(body)
              thrown == Thrown(i, FALSE, DuplicateKey(productos, nuevoProducto), outcome)
          IN  /\ req' = [route |-> "POST /api/productos", inst |-> i, body |-> body]
              /\ console' = thrown
              /\ IF thrown # ""
                 THEN /\ resp' = Error500("Error al crear producto")
                      /\ UNCHANGED productos
                 ELSE /\ productos' = InsertOne(productos, nuevoProducto)
                      /\ resp' = Json(201, [success |-> JSTrue,
                                            id |-> WithId(productos, nuevoProducto)["_id"],
                                            message |-> "Producto creado exitosamente"])
    /\ UNCHANGED <<clock, huespedes, transacciones>>
    /\ UNCHANGED_PROCESS

\* ---------------------------------------------------------- specifications

NextStartup ==
    \/ \E i \in Instances : Launch(i)
    \/ \E i \in Instances : ConnectDB(i)
    \/ \E i \in Instances : ClientConnect(i)
    \/ \E i \in Instances : Ping(i)
    \/ \E i \in Instances : SeedCount(i)
    \/ \E i \in Instances : SeedInsert(i)
    \/ \E i \in Instances : Listen(i)

NextLifecycle ==
    \/ NextStartup
    \/ \E i \in Instances : Sigint(i)
    \/ \E i \in Instances : CloseAndExit(i)
    \/ \E i \in Instances : GetRoot(i)
    \/ \E i \in Instances : GetPing(i)

\* One process and the guest routes.
NextHuespedes ==
    \/ Launch(1)
    \/ ConnectDB(1)
    \/ ClientConnect(1)
    \/ Ping(1)
    \/ SeedCount(1)
    \/ SeedInsert(1)
    \/ Listen(1)
    \/ GetHuespedes(1)
    \/ GetHuesped(1)
    \/ PostHuesped(1)
    \/ PutHuesped(1)
    \/ DeleteHuesped(1)

SpecHuespedes == Init /\ [][NextHuespedes]_vars

\* One process, the clock and the transaction routes.
NextTransacciones ==
    \/ Launch(1)
    \/ ConnectDB(1)
    \/ ClientConnect(1)
    \/ Ping(1)
    \/ SeedCount(1)
    \/ SeedInsert(1)
    \/ Listen(1)
    \/ Tick
    \/ GetTransacciones(1)
    \/ GetTransaccionesHuesped(1)
    \/ PostTransaccion(1)

SpecTransacciones == Init /\ [][NextTransacciones]_vars

\* One process and the product routes.
NextProductos ==
    \/ Launch(1)
    \/ ConnectDB(1)
    \/ ClientConnect(1)
    \/ Ping(1)
    \/ SeedCount(1)
    \/ SeedInsert(1)
    \/ Listen(1)
    \/ GetProductos(1)
    \/ PostProducto(1)

SpecProductos == Init /\ [][NextProductos]_vars

\* Every process, every route.
Next ==
    \/ NextLifecycle
    \/ Tick
    \/ \E i \in Instances :
          \/ GetHuespedes(i) \/ GetHuesped(i) \/ PostHuesped(i)
          \/ PutHuesped(i) \/ DeleteHuesped(i)
          \/ GetTransacciones(i) \/ GetTransaccionesHuesped(i) \/ PostTransaccion(i)
          \/ GetProductos(i) \/ PostProducto(i)

Spec == Init /\ [][Next]_vars

SpecLifecycle == Init /\ [][NextLifecycle]_vars

\* Start-up alone, no signal arriving.  Every await of connectDB settles (the
\* driver's own time-outs) and the `then` callback then runs, so each step of
\* a started process is weakly fair; starting a process is not.
SpecStartup ==
    /\ Init
    /\ [][NextStartup]_vars
    /\ \A i \in Instances :
          WF_vars(ConnectDB(i) \/ ClientConnect(i) \/ Ping(i)
                    \/ SeedCount(i) \/ SeedInsert(i) \/ Listen(i))

\* ------------------------------------------------------- seeding (C3, C8)

\* The documents of `now` after the first `n`, without the fields the
\* insert adds, are the ten defaults in order.
AppendsDefaults(before, now) ==
    /\ Len(now) = Len(before) + Len(defaultProductos)
    /\ \A k \in 1..Len(before) : now[k] = before[k]
    /\ \A k \in 1..Len(defaultProductos) :
          LET d == now[Len(before) + k]
          IN  /\ DOMAIN d = (DOMAIN defaultProductos[k]) \cup {"_id", "createdAt", "updatedAt"}
              /\ \A f \in DOMAIN defaultProductos[k] : d[f] = defaultProductos[k][f]
              /\ d["createdAt"] = clock /\ d["updatedAt"] = clock

\* C3: ensureProductosSeeded goes on to insert if and only if the count it
\* read is zero; on a non-empty collection it returns with the collection
\* unchanged, and an insert adds exactly the ten defaults.  (A storage call
\* that throws ends in the catch block with nothing inserted.)
C3_SeedsOnlyWhenEmpty ==
    [][\A i \in Instances :
        /\ (pc[i] = "count" /\ pc'[i] = "insert") => Len(productos) = 0
        /\ (pc[i] = "count" /\ pc'[i] = "resolved" /\ Len(productos) = 0)
              => events'[i] = events[i] \o <<"error", "return">>
        /\ (pc[i] = "count" /\ pc'[i] # "count") => productos' = productos
        /\ (pc[i] = "insert" /\ pc'[i] # "insert")
              => \/ AppendsDefaults(productos, productos')
                 \/ /\ productos' = productos
                    /\ events'[i] = events[i] \o <<"error", "return">>
        /\ productos' # productos
              => \E j \in Instances : pc[j] = "insert" /\ pc'[j] = "resolved"
      ]_vars

SeedCheckRan(i) ==
    \E k \in 1..Len(events[i]) :
        /\ events[i][k] = "seed"
        /\ k < Len(events[i])
        /\ events[i][k + 1] # "error"

\* C3 witness: two seed checks have completed without an error and the
\* collection holds the ten defaults once, so the later one changed nothing.
C3_Witness ==
    /\ \A i \in {1, 2} : SeedCheckRan(i)
    /\ Len(productos) = Len(defaultProductos)

Launched == {i \in Instances : pc[i] # "off"}

Inserted == {i \in Instances : \E k \in 1..Len(events[i]) : events[i][k] = "insertados"}

\* C8: the collection holds one copy of the defaults per process that went
\* through the insert, each process inserts at most once, and so a single
\* started process never leaves more than one copy.
C8_SeedRace ==
    /\ SeedCopies = Cardinality(Inserted)
    /\ Len(productos) = SeedCopies * Len(defaultProductos)
    /\ Inserted \subseteq Launched
    /\ Cardinality(Launched) = 1 => SeedCopies <= 1

\* C8 witness: two processes both read a count of zero and both inserted.
C8_Witness ==
    /\ SeedCopies = 2
    /\ Len(productos) = 2 * Len(defaultProductos)
    /\ Cardinality(Inserted) = 2

\* ------------------------------------------------------- start-up order (C9)

IsPrefix(s, t) == Len(s) <= Len(t) /\ \A k \in 1..Len(s) : s[k] = t[k]

StartupOrders == {
    <<"connectDB", "return", "listen">>,
    <<"connectDB", "error", "return", "listen">>,
    <<"connectDB", "connected", "error", "return", "listen">>,
    <<"connectDB", "connected", "pinged", "seed", "return", "listen">>,
    <<"connectDB", "connected", "pinged", "seed", "insertados", "return", "listen">>,
    <<"connectDB", "connected", "pinged", "seed", "error", "return", "listen">> }

StartupOrderOK(i) ==
    /\ \E t \in StartupOrders : IsPrefix(events[i], t)
    /\ MONGODB_URI[i] = "" => IsPrefix(events[i], <<"connectDB", "return", "listen">>)
    /\ pc[i] = "listening" <=> (events[i] # <<>> /\ events[i][Len(events[i])] = "listen")

\* C9: the events of a start-up come in the order connection attempt, seed
\* check (once, and only after connect and ping succeeded), return of
\* connectDB, listen; and every started process comes to listen.
C9_StartupOrder ==
    /\ [](\A i \in Instances : StartupOrderOK(i))
    /\ \A i \in Instances : (pc[i] # "off") ~> (pc[i] = "listening")

\* C9 witness: the listener is up after a seed check that failed.
C9_Witness ==
    \E i \in Instances :
        /\ pc[i] = "listening"
        /\ events[i] = <<"connectDB", "connected", "pinged", "seed", "error", "return", "listen">>

\* ----------------------------------------------------------- shutdown (C10)

\* C10: once SIGINT has been handled no request is accepted any more, and a
\* process that has a client exits only with the client closed.
C10_ShutdownOrder ==
    [][\A i \in Instances :
        /\ shutdown[i] = "closing" => ~(req' # req /\ req'["inst"] = i)
        /\ (shutdown[i] # "exited" /\ shutdown'[i] = "exited" /\ client[i] # "undefined")
              => client'[i] = "closed"
      ]_vars

\* ------------------------------------------------- guests (C1, C6, C7, C2)

\* A step in which the handler of `route` ran.
Handled(route) ==
    /\ req'["route"] = route
    /\ <<req, resp, console, huespedes, transacciones, productos>>
          # <<req', resp', console', huespedes', transacciones', productos'>>

Ids(coll) == {coll[k]["_id"] : k \in 1..Len(coll)}

\* C1: no request removes a guest document; a successful DELETE leaves its
\* guest with activo=false; and the GET that follows a successful DELETE
\* of a guest omits it from the list of active guests, respectively returns
\* that same stored document, activo=false, by its id.
C1_SoftDelete ==
    [][/\ Ids(huespedes) \subseteq Ids(huespedes')
       /\ (Handled("DELETE /api/huespedes/:id") /\ resp'["status"] = 200)
             => \E k \in 1..Len(huespedes) :
                   /\ huespedes[k]["_id"] = ObjectId(req'["id"].v)
                   /\ huespedes'[k]["activo"] = JSFalse
                   /\ huespedes'[k]["_id"] = huespedes[k]["_id"]
                   /\ \A f \in (DOMAIN huespedes[k]) \ {"activo", "deletedAt"} :
                         huespedes'[k][f] = huespedes[k][f]
       /\ (req["route"] = "DELETE /api/huespedes/:id" /\ resp["status"] = 200)
             => /\ (Handled("GET /api/huespedes") /\ console' = "")
                      => /\ resp'["status"] = 200
                         /\ \A k \in 1..Len(resp'["body"]) :
                               resp'["body"][k]["_id"] # ObjectId(req["id"].v)
                /\ (Handled("GET /api/huespedes/:id") /\ console' = "" /\ req'["id"] = req["id"])
                      => /\ resp'["status"] = 200
                         /\ resp'["body"] \in Range(huespedes)
                         /\ resp'["body"]["_id"] = ObjectId(req["id"].v)
                         /\ resp'["body"]["activo"] = JSFalse
      ]_vars

\* C1 witness: a soft-deleted guest was fetched by its id while another guest
\* is still active.
C1_Witness ==
    /\ req["route"] = "GET /api/huespedes/:id"
    /\ resp["status"] = 200
    /\ resp["body"]["activo"] = JSFalse
    /\ "deletedAt" \in DOMAIN resp["body"]
    /\ \E d \in Range(huespedes) : d["activo"] = JSTrue

\* C6: a PUT that no exception ends answers 404 and changes nothing when no
\* guest has the id; otherwise it answers 200, the guest keeps its _id and
\* every field the body does not name, gets the body's fields other than _id
\* and the server's updatedAt, and no other guest changes.  The only
\* exceptions are those of the driver; they leave every guest unchanged.
C6_PutStripsId ==
    [][Handled("PUT /api/huespedes/:id") =>
        LET p == req'["id"]
            body == req'["body"]
            hit == {k \in 1..Len(huespedes) : huespedes[k]["_id"] = ObjectId(p.v)}
        IN  /\ console' \in {"", "TypeError", "BSONError", "MongoNetworkError"}
            /\ console' # "" => resp'["status"] = 500 /\ huespedes' = huespedes
            /\ (console' = "" /\ hit = {}) => resp'["status"] = 404 /\ huespedes' = huespedes
            /\ (console' = "" /\ hit # {}) =>
                  /\ resp'["status"] = 200
                  /\ Len(huespedes') = Len(huespedes)
                  /\ \A k \in 1..Len(huespedes) :
                        LET old == huespedes[k]
                            new == huespedes'[k]
                        IN  IF k \notin hit THEN new = old
                            ELSE /\ new["_id"] = old["_id"]
                                 /\ DOMAIN new = (DOMAIN old) \cup ((DOMAIN body) \ {"_id"})
                                                     \cup {"updatedAt"}
                                 /\ new["updatedAt"] = clock
                                 /\ \A f \in (DOMAIN body) \ {"_id", "updatedAt"} :
                                       new[f] = body[f]
                                 /\ \A f \in (DOMAIN old) \ ((DOMAIN body) \cup {"updatedAt"}) :
                                       new[f] = old[f]
      ]_vars

\* C6 witness: a PUT whose body carried an _id was answered 200, the guest it
\* names has the body's nombre, and a second guest exists.
C6_Witness ==
    /\ req["route"] = "PUT /api/huespedes/:id"
    /\ "_id" \in DOMAIN req["body"]
    /\ "nombre" \in DOMAIN req["body"]
    /\ resp["status"] = 200
    /\ Len(huespedes) = 2
    /\ \E d \in Range(huespedes) :
          /\ d["_id"] = ObjectId(req["id"].v)
          /\ d["nombre"] = req["body"]["nombre"]
          /\ "updatedAt" \in DOMAIN d

IdRoutes ==
    {"GET /api/huespedes/:id", "PUT /api/huespedes/:id", "DELETE /api/huespedes/:id"}

\* C7: with the database connected, a malformed id on a guest id route is
\* answered 400 or 404, and no exception of the driver is what answers it.
C7_MalformedIdRejected ==
    (/\ req["route"] \in IdRoutes
     /\ ~req["id"].hex
     /\ db[req["inst"]] # "undefined")
        => /\ resp["status"] \in {400, 404}
           /\ console # "BSONError"

DataRoutes ==
    IdRoutes \cup {"GET /api/huespedes", "POST /api/huespedes", "GET /api/ping",
                   "GET /api/transacciones", "GET /api/transacciones/huesped/:huespedId",
                   "POST /api/transacciones", "GET /api/productos", "POST /api/productos"}

\* The error messages of server.js that name the database.
NamesDatabase(message) == message = "Error de conexion a MongoDB"

\* C2: a process started without a connection string comes to listen, and
\* answers every request to a data route with a 500 whose error names the
\* database, changing no collection and staying up.
C2_DegradedMode ==
    [][\A route \in DataRoutes :
          (Handled(route) /\ MONGODB_URI[req'["inst"]] = "")
             => /\ resp'["status"] = 500
                /\ NamesDatabase(resp'["body"]["error"])
                /\ UNCHANGED <<huespedes, transacciones, productos>>
                /\ pc'[req'["inst"]] = "listening"
                /\ shutdown'[req'["inst"]] # "exited"
      ]_vars


\* --------------------------------------------------------- transactions (C4)

ListRoutes ==
    {"GET /api/transacciones", "GET /api/transacciones/huesped/:huespedId"}

\* The transactions a listing request asks for.
Asked(r) ==
    IF r["route"] = "GET /api/transacciones" THEN Range(transacciones)
    ELSE {d \in Range(transacciones) : d["huespedId"] = r["huespedId"]}

\* Every POST stores the server's time as fecha, whatever the body carried.
FechaIsServerTime ==
    (Handled("POST /api/transacciones") /\ console' = "")
       => /\ Len(transacciones') = Len(transacciones) + 1
          /\ \A k \in 1..Len(transacciones) : transacciones'[k] = transacciones[k]
          /\ transacciones'[Len(transacciones')]["fecha"] = ToISOString(clock)
          /\ transacciones'[Len(transacciones')]["createdAt"] = clock

\* C4 as stated: fecha is the server's time, and every listing returns the
\* transactions it asks for with each one created later before each one
\* created earlier (creation order is the order of the generated ids).
C4_NewestCreatedFirst ==
    [][/\ FechaIsServerTime
       /\ \A route \in ListRoutes :
             (Handled(route) /\ console' = "")
                => LET list == resp'["body"]
                   IN  /\ Range(list) = Asked(req')
                       /\ \A j, k \in 1..Len(list) :
                             j < k => list[j]["_id"].v > list[k]["_id"].v
      ]_vars

\* C4 as amended: fecha is the server's time, and every listing returns the
\* transactions it asks for in non-increasing order of fecha, so that of two
\* transactions created at different server times the later comes first;
\* two created in the same millisecond come in either order.
C4_SortedByServerFecha ==
    [][/\ FechaIsServerTime
       /\ \A route \in ListRoutes :
             (Handled(route) /\ console' = "")
                => LET list == resp'["body"]
                   IN  /\ resp'["status"] = 200
                       /\ Range(list) = Asked(req')
                       /\ Len(list) = Cardinality(Asked(req'))
                       /\ \A j, k \in 1..Len(list) :
                             j < k =>
                                /\ ~LexLess(list[j]["fecha"], list[k]["fecha"])
                                /\ list[j]["createdAt"] >= list[k]["createdAt"]
                                /\ list[j]["createdAt"] # list[k]["createdAt"]
                                      => list[j]["_id"].v > list[k]["_id"].v
      ]_vars

\* C4 witness: a listing of two transactions created at different times, the
\* later one first; its request carried a fecha of the client's, which is not
\* what was stored.
C4_Witness ==
    /\ req["route"] = "GET /api/transacciones"
    /\ resp["status"] = 200
    /\ Len(resp["body"]) = 2
    /\ resp["body"][1]["createdAt"] > resp["body"][2]["createdAt"]
    /\ resp["body"][1]["huespedId"] = "h2"
    /\ resp["body"][1]["fecha"] # ClientFecha
    /\ resp["body"][1]["fecha"] = ToISOString(resp["body"][1]["createdAt"])

\* -------------------------------------------------------------- products (C5)

Activos == {d \in Range(productos) : "activo" \in DOMAIN d /\ d["activo"] = JSTrue}

OfCategoria(c) == {d \in Activos : "categoria" \in DOMAIN d /\ d["categoria"] = c}

\* A product is stored with the body's activo, or true when the body has none.
ActivoDefaultsToTrue ==
    (Handled("POST /api/productos") /\ console' = "")
       => LET body == req'["body"]
              new == productos'[Len(productos')]
          IN  /\ Len(productos') = Len(productos) + 1
              /\ \A k \in 1..Len(productos) : productos'[k] = productos[k]
              /\ new["activo"] = IF "activo" \in DOMAIN body /\ body["activo"] # JSNull
                                 THEN body["activo"] ELSE JSTrue
              /\ ("activo" \notin DOMAIN body /\ "categoria" \in DOMAIN body)
                    => \A list \in ProductosListados(productos', [categoria |-> body["categoria"]]) :
                          new \in Range(list)

\* The listing is exactly `wanted`, each product once.
Lists(list, wanted) ==
    /\ Range(list) = wanted
    /\ Len(list) = Cardinality(wanted)

\* C5 as stated: without categoria or with categoria=todos the listing is
\* the active products; with any other categoria value it is the active
\* products of that category.
C5_ListingByCategoria ==
    [][/\ ActivoDefaultsToTrue
       /\ (Handled("GET /api/productos") /\ console' = "")
             => LET query == req'["query"]
                IN  /\ resp'["status"] = 200
                    /\ IF "categoria" \notin DOMAIN query \/ query["categoria"] = "todos"
                       THEN Lists(resp'["body"], Activos)
                       ELSE Lists(resp'["body"], OfCategoria(query["categoria"]))
      ]_vars

\* C5 as amended: an empty categoria counts as none: without categoria,
\* with an empty categoria or with categoria=todos the listing is the active
\* products; with any other value it is the active products of that category.
C5_ListingByNonEmptyCategoria ==
    [][/\ ActivoDefaultsToTrue
       /\ (Handled("GET /api/productos") /\ console' = "")
             => LET query == req'["query"]
                IN  /\ resp'["status"] = 200
                    /\ IF "categoria" \notin DOMAIN query
                             \/ query["categoria"] \in {"", "todos"}
                       THEN Lists(resp'["body"], Activos)
                       ELSE Lists(resp'["body"], OfCategoria(query["categoria"]))
      ]_vars

\* C5 witness: the seeded catalog plus a product created without activo,
\* which the listing of its category returns with the three seeded ones.
C5_Witness ==
    /\ req["route"] = "GET /api/productos"
    /\ req["query"] = [categoria |-> "alimentos"]
    /\ resp["status"] = 200
    /\ Len(resp["body"]) = 4
    /\ \E k \in 1..Len(resp["body"]) :
          /\ resp["body"][k]["nombre"] = "Taco"
          /\ resp["body"][k]["activo"] = JSTrue

=============================================================================
